---- MODULE Spec2Model ----
(***************************************************************************)
(* confinator: INI style config files validated against a schema of        *)
(* regular expressions (validation.py) and the command line tool that      *)
(* gets, sets and unsets options in such a file (cli.py).                  *)
(*                                                                         *)
(* A string is a tuple of one-character strings.  A pattern is a string    *)
(* whose characters may be the regular expression tokens "^", "$", "."     *)
(* and ".*"; every other character stands for itself.                      *)
(***************************************************************************)
EXTENDS Integers, Sequences, FiniteSets, TLC

VARIABLES
    vop,        \* pure calls: the function applied ("none" before the call)
    vconfig,    \* pure calls: the config argument of validate_config
    vschema,    \* pure calls: the schema argument of validate_config
    vname,      \* pure calls: section / option / value argument
    vlist,      \* pure calls: valid_sections / valid_options / <<valid_value>>
    vret        \* pure calls: what the call returned or raised

vvars == <<vop, vconfig, vschema, vname, vlist, vret>>

VARIABLES
    schemaFile,     \* the schema file (never written)
    caseSensitive,  \* use_case_sensitive_option_names, the same for every store
    file0,          \* the config file before the first invocation
    cfgFile,        \* the config file
    runs,           \* stores constructed so far
    pc,             \* per process: "idle", "loaded" (store constructed), "done"
    cls,            \* per process: the class of the store, ConfigCLI or ValidConfig
    mem,            \* per process: the sections and options held by the store
    loaded,         \* per process: what the constructor read from the config file
    argv,           \* per process: the command line handed to run()
    status,         \* per process: "running", "exit0", "exit1", "exit2" or the
                    \* class of the exception that ended the process
    err,            \* per process: the error logged or raised
    out,            \* per process: the lines printed to stdout
    log             \* per process: the methods called and the file operations done

cvars == <<schemaFile, caseSensitive, file0, cfgFile, runs, pc, cls, mem, loaded, argv,
           status, err, out, log>>

vars == <<vvars, cvars>>

-----------------------------------------------------------------------------
(* Bounds of the model *)

MaxSecs == 2        \* sections of a generated config
MaxOpts == 2        \* options of a generated section
MaxPats == 3        \* length of a generated pattern list
MaxRuns == 3        \* stores constructed in a behaviour

-----------------------------------------------------------------------------
(* Strings *)

\* "DEFAULT", the reserved section name (validation.py:81, 83)
DEFAULT == <<"D", "E", "F", "A", "U", "L", "T">>

SeqsUpTo(S, n) == UNION {[1..k -> S] : k \in 0..n}

\* Index of the last TRUE of a sequence of booleans, 0 if there is none
LastTrue(flags) ==
    IF \E i \in 1..Len(flags) : flags[i]
    THEN CHOOSE i \in 1..Len(flags) : flags[i] /\ \A j \in (i + 1)..Len(flags) : ~flags[j]
    ELSE 0

\* Index of the first TRUE of a sequence of booleans, 0 if there is none: the
\* `for x in xs: if test(x): return x` loops of validation.py return there
FirstTrue(flags) ==
    IF \E i \in 1..Len(flags) : flags[i]
    THEN CHOOSE i \in 1..Len(flags) : flags[i] /\ \A j \in 1..(i - 1) : ~flags[j]
    ELSE 0

-----------------------------------------------------------------------------
(* re.compile(pattern).match(string): the pattern must match starting at   *)
(* the first character; characters after the match are left unconsumed.    *)

RECURSIVE MatchFrom(_, _, _, _)
\* tokens p[j..] match in s starting at index i
MatchFrom(p, j, s, i) ==
    IF j > Len(p) THEN TRUE
    ELSE LET t == p[j] IN
         CASE t = "^"  -> i = 1 /\ MatchFrom(p, j + 1, s, i)
           [] t = "$"  -> i = Len(s) + 1 /\ MatchFrom(p, j + 1, s, i)
           [] t = "."  -> i <= Len(s) /\ MatchFrom(p, j + 1, s, i + 1)
           [] t = ".*" -> \E k \in i..(Len(s) + 1) : MatchFrom(p, j + 1, s, k)
           [] OTHER    -> i <= Len(s) /\ s[i] = t /\ MatchFrom(p, j + 1, s, i + 1)

\* re.search: the pattern may match starting anywhere
ReSearch(p, s) == \E i \in 1..(Len(s) + 1) : MatchFrom(p, 1, s, i)

ReMatch(p, s) == MatchFrom(p, 1, s, 1)

-----------------------------------------------------------------------------
(* configparser.ConfigParser: an ordered mapping of section names to       *)
(* ordered mappings of option names to values, plus the DEFAULT section,   *)
(* whose options every section inherits.                                   *)
(*   [defaults |-> <<[key, value], ...>>,                                  *)
(*    sections |-> <<[name, opts |-> <<[key, value], ...>>], ...>>]        *)

Keys(opts) == [i \in 1..Len(opts) |-> opts[i].key]

HasKey(opts, k) == \E i \in 1..Len(opts) : opts[i].key = k

ValueOf(opts, k) == opts[CHOOSE i \in 1..Len(opts) : opts[i].key = k].value

\* parser.sections(): the section names in insertion order, DEFAULT not among them
Sections(c) == [i \in 1..Len(c.sections) |-> c.sections[i].name]

HasSection(c, s) == \E i \in 1..Len(c.sections) : c.sections[i].name = s

SectionOpts(c, s) == c.sections[CHOOSE i \in 1..Len(c.sections) : c.sections[i].name = s].opts

\* options(section) listing the section's own option names alone
OptionsOwn(c, s) == Keys(SectionOpts(c, s))

\* parser.options(section): the section's own option names, then the DEFAULT
\* options the section does not set itself
Options(c, s) ==
    LET own == SectionOpts(c, s)
        IsInherited(o) == ~HasKey(own, o.key)
    IN  Keys(own) \o Keys(SelectSeq(c.defaults, IsInherited))

\* list(parser): "DEFAULT" first, then the sections
ListParser(c) == <<DEFAULT>> \o Sections(c)

\* list(parser[section]): the option names seen through the section proxy
ListSection(c, s) == IF s = DEFAULT THEN Keys(c.defaults) ELSE Options(c, s)

\* parser[section][option]: the section's own value, else the DEFAULT one
GetItem(c, s, o) ==
    IF s # DEFAULT /\ HasKey(SectionOpts(c, s), o)
    THEN ValueOf(SectionOpts(c, s), o)
    ELSE ValueOf(c.defaults, o)

-----------------------------------------------------------------------------
(* validation.py *)

NoStr == <<>>

\* what a call returned (kind "ok", ret the value returned) or raised
Result(kind, ret, section, option, value, valid) ==
    [kind |-> kind, ret |-> ret, section |-> section, option |-> option,
     value |-> value, valid |-> valid]

Ok(ret) == Result("ok", ret, NoStr, NoStr, NoStr, <<>>)

None == Result("none", NoStr, NoStr, NoStr, NoStr, <<>>)

InvalidSectionError(section, valid_sections) ==
    Result("InvalidSectionError", NoStr, section, NoStr, NoStr, valid_sections)

InvalidOptionError(section, option, valid_options) ==
    Result("InvalidOptionError", NoStr, section, option, NoStr, valid_options)

InvalidValueError(section, option, value, valid_value) ==
    Result("InvalidValueError", NoStr, section, option, value, <<valid_value>>)

IsInvalidConfigError(r) ==
    r.kind \in {"InvalidSectionError", "InvalidOptionError", "InvalidValueError"}

\* the end of the loops of _validate_section and _validate_option: the pattern
\* the loop returned at, or the error raised after it
Returned(valid, i, error) == IF i # 0 THEN Ok(valid[i]) ELSE error

ExceptDefault(valid_sections) ==
    LET NotDefault(s) == s # DEFAULT IN SelectSeq(valid_sections, NotDefault)

\* _validate_section without the test for the reserved name
ValidateSectionAnyName(section, valid_sections) ==
    Returned(valid_sections,
             FirstTrue([n \in 1..Len(valid_sections) |-> ReMatch(valid_sections[n], section)]),
             InvalidSectionError(section, ExceptDefault(valid_sections)))

ValidateSection(section, valid_sections) ==
    Returned(valid_sections,
             FirstTrue([n \in 1..Len(valid_sections) |->
                           section # DEFAULT /\ ReMatch(valid_sections[n], section)]),
             InvalidSectionError(section, ExceptDefault(valid_sections)))

ValidateOption(section, option, valid_options) ==
    Returned(valid_options,
             FirstTrue([n \in 1..Len(valid_options) |-> ReMatch(valid_options[n], option)]),
             InvalidOptionError(section, option, valid_options))

ValidateValue(section, option, value, valid_value) ==
    IF ~ReMatch(valid_value, value)
    THEN InvalidValueError(section, option, value, valid_value)
    ELSE Ok(NoStr)

\* line 134 with a value tested against the value pattern of every option pattern that
\* matches the name, accepted when one of them matches
ValueCheckedAnyPattern(config, schema, section, schema_section, option, o) ==
    IF o.kind # "ok" THEN o
    ELSE IF \E n \in 1..Len(ListSection(schema, schema_section)) :
                /\ ReMatch(ListSection(schema, schema_section)[n], option)
                /\ ReMatch(GetItem(schema, schema_section, ListSection(schema, schema_section)[n]),
                           GetItem(config, section, option))
    THEN Ok(NoStr)
    ELSE ValidateValue(section, option, GetItem(config, section, option),
                       GetItem(schema, schema_section, o.ret))

\* line 134 of validate_config, o being what _validate_option returned or raised
ValueChecked(config, schema, section, schema_section, option, o) ==
    IF o.kind # "ok" THEN o
    ELSE ValidateValue(section, option, GetItem(config, section, option),
                       GetItem(schema, schema_section, o.ret))

\* one turn of the inner loop of validate_config: option name, then its value
ValidateEntry(config, schema, section, schema_section, option) ==
    ValueChecked(config, schema, section, schema_section, option,
                 ValidateOption(section, option, ListSection(schema, schema_section)))

RECURSIVE ValidateOptionsFrom(_, _, _, _, _)
\* the inner loop goes on after the k-th option unless the turn r raised
OptionsAfter(config, schema, section, schema_section, k, r) ==
    IF r.kind # "ok" THEN r
    ELSE ValidateOptionsFrom(config, schema, section, schema_section, k + 1)

\* the inner loop of validate_config from the k-th option of the section on
ValidateOptionsFrom(config, schema, section, schema_section, k) ==
    IF k > Len(Options(config, section)) THEN Ok(NoStr)
    ELSE OptionsAfter(config, schema, section, schema_section, k,
                      ValidateEntry(config, schema, section, schema_section,
                                    Options(config, section)[k]))

RECURSIVE ValidateSectionsFrom(_, _, _)
\* the outer loop goes on after the n-th section unless its inner loop r raised
SectionsAfter(config, schema, n, r) ==
    IF r.kind # "ok" THEN r ELSE ValidateSectionsFrom(config, schema, n + 1)

\* the body of the outer loop, s being what _validate_section returned or raised
SectionChecked(config, schema, n, s) ==
    IF s.kind # "ok" THEN s
    ELSE SectionsAfter(config, schema, n,
                       ValidateOptionsFrom(config, schema, Sections(config)[n], s.ret, 1))

\* the outer loop of validate_config from the n-th section on
ValidateSectionsFrom(config, schema, n) ==
    IF n > Len(Sections(config)) THEN Ok(NoStr)
    ELSE SectionChecked(config, schema, n,
                        ValidateSection(Sections(config)[n], ListParser(schema)))

\* validate_config checking the names of all sections before any option
ValidateConfigNamesFirst(config, schema) ==
    LET sections == Sections(config)
        bad == {n \in 1..Len(sections) :
                   ValidateSection(sections[n], ListParser(schema)).kind # "ok"}
    IN  IF bad # {}
        THEN ValidateSection(sections[CHOOSE n \in bad : \A m \in bad : n <= m],
                             ListParser(schema))
        ELSE ValidateSectionsFrom(config, schema, 1)

ValidateConfig(config, schema) == ValidateSectionsFrom(config, schema, 1)

-----------------------------------------------------------------------------
(* Inputs of the model *)

A == <<"a">>
AB == <<"a", "b">>
B == <<"b">>
DEFAULTS == DEFAULT \o <<"S">>

O == <<"o">>
OP == <<"o", "p">>

V1 == <<"1">>
V12 == <<"1", "2">>

Opt(k, v) == [key |-> k, value |-> v]

Sec(n, opts) == [name |-> n, opts |-> opts]

Parser(defaults, sections) == [defaults |-> defaults, sections |-> sections]

EmptyParser == Parser(<<>>, <<>>)

\* names and patterns handed to _validate_section, _validate_option, _validate_value
Names == {A, AB, B, DEFAULT, DEFAULTS}

Patterns == {A, <<"^", "a", "$">>, B, <<".*">>, DEFAULT}

PatLists == SeqsUpTo(Patterns, MaxPats)

\* configs handed to validate_config
SecNames == {A, AB, DEFAULTS}

OptNames == {O, OP}

Values == {V1, V12}

DistinctKeys(opts) == \A i, j \in 1..Len(opts) : opts[i].key = opts[j].key => i = j

DistinctNames(secs) == \A i, j \in 1..Len(secs) : secs[i].name = secs[j].name => i = j

\* no value pattern of the schemas below tells "1" from "12" for the option "op",
\* which therefore takes the one value "12"
OptLists ==
    {l \in SeqsUpTo([key : OptNames, value : Values], MaxOpts) :
        DistinctKeys(l) /\ \A i \in 1..Len(l) : l[i].key = OP => l[i].value = V12}

SecLists == {l \in SeqsUpTo([name : SecNames, opts : OptLists], MaxSecs) : DistinctNames(l)}

DefaultLists == {<<>>, <<Opt(OP, V12)>>}

Configs == [defaults : DefaultLists, sections : SecLists]

\* overlapping option patterns: "^o$" before "o", with different value patterns
Schema1 ==
    Parser(<<>>, <<Sec(<<"^", "a", "$">>,
                       <<Opt(<<"^", "o", "$">>, <<"^", "1", "$">>), Opt(O, <<"^", ".">>)>>)>>)

\* a DEFAULT section in the schema, and a section pattern that is a prefix
Schema2 ==
    Parser(<<Opt(<<"^", "o", "p", "$">>, V1)>>,
           <<Sec(A, <<Opt(<<"^", "o", "$">>, <<"^", "1", "$">>)>>)>>)

\* overlapping section patterns: "a" before "^ab$"
Schema3 ==
    Parser(<<>>, <<Sec(A, <<Opt(<<"^", "o", "$">>, <<"^", "1", "$">>)>>),
                   Sec(<<"^", "a", "b", "$">>, <<Opt(<<"^", "o", "p", "$">>, V1)>>)>>)

\* an exact section and a catch-all one
Schema4 ==
    Parser(<<>>, <<Sec(<<"^", "a", "$">>, <<Opt(<<"^", "o", "$">>, <<"^", "1", "$">>)>>),
                   Sec(<<".*">>, <<Opt(<<".*">>, <<".*">>)>>)>>)

\* nothing but a DEFAULT section
Schema5 == Parser(<<Opt(<<".*">>, <<"^", "1">>)>>, <<>>)

\* option names of either case in the one section "ab"
Schema6 == Parser(<<>>, <<Sec(<<"^", "a", "b", "$">>, <<Opt(<<".">>, <<"^", "1", "$">>)>>)>>)

\* an option pattern written in upper case
Schema7 == Parser(<<>>, <<Sec(<<"^", "a", "b", "$">>, <<Opt(<<"^", "O", "$">>, <<"^", "1", "$">>)>>)>>)

Schemas == {Schema1, Schema2, Schema3, Schema4, Schema5}

-----------------------------------------------------------------------------
(* Files.  A file that parses holds, per section, the option names and the *)
(* values as they were written; ConfigParser.write writes every name and   *)
(* value it holds as it is, ConfigParser.read strips the white space       *)
(* around a value and passes every option name through optionxform.        *)

Absent == [exists |-> FALSE, parses |-> FALSE, content |-> EmptyParser]

\* a file ConfigParser.read raises configparser.ParsingError on
Malformed == [exists |-> TRUE, parses |-> FALSE, content |-> EmptyParser]

File(c) == [exists |-> TRUE, parses |-> TRUE, content |-> c]

\* str.lower on one character
Lower(ch) ==
    CASE ch = "O" -> "o"
      [] ch = "D" -> "d"
      [] ch = "E" -> "e"
      [] ch = "F" -> "f"
      [] ch = "A" -> "a"
      [] ch = "U" -> "u"
      [] ch = "L" -> "l"
      [] ch = "T" -> "t"
      [] ch = "S" -> "s"
      [] OTHER -> ch

\* an optionxform that is str in both modes
OptionXFormStr(cs, option) == option

\* optionxform: str.lower, or str when option names are case sensitive
OptionXForm(cs, option) == IF cs THEN option ELSE [i \in 1..Len(option) |-> Lower(option[i])]

\* str.strip on a value
Strip(v) ==
    LET inked == {i \in 1..Len(v) : v[i] # " "} IN
    IF inked = {} THEN <<>>
    ELSE SubSeq(v, CHOOSE i \in inked : \A j \in inked : i <= j,
                   CHOOSE i \in inked : \A j \in inked : j <= i)

ReadOpts(opts, cs) ==
    [i \in 1..Len(opts) |-> Opt(OptionXForm(cs, opts[i].key), Strip(opts[i].value))]

\* parser.read(file) into an empty parser
ReadFile(c, cs) ==
    Parser(ReadOpts(c.defaults, cs),
           [i \in 1..Len(c.sections) |->
               Sec(c.sections[i].name, ReadOpts(c.sections[i].opts, cs))])

\* parser.write(f) on an empty file
WriteFile(m) == File(m)

\* _get_schema: the schema is read by a plain ConfigParser
ReadSchema(f) == ReadFile(f.content, FALSE)

-----------------------------------------------------------------------------
(* The methods of ConfigParser the command line tool calls *)

IndexOfSection(c, s) == CHOOSE i \in 1..Len(c.sections) : c.sections[i].name = s

AddSection(c, s) == [c EXCEPT !.sections = Append(@, Sec(s, <<>>))]

\* opts[key] = value on an insertion ordered dict
PutOpt(opts, k, v) ==
    IF HasKey(opts, k)
    THEN [i \in 1..Len(opts) |-> IF opts[i].key = k THEN Opt(k, v) ELSE opts[i]]
    ELSE Append(opts, Opt(k, v))

\* del opts[key]
DelOpt(opts, k) == LET Other(o) == o.key # k IN SelectSeq(opts, Other)

\* parser.set(section, option, value) on an existing section; option already transformed
SetValue(c, s, k, v) ==
    [c EXCEPT !.sections[IndexOfSection(c, s)].opts = PutOpt(@, k, v)]

\* parser.remove_option(section, option) where the option exists
RemoveOption(c, s, k) ==
    IF s = DEFAULT THEN [c EXCEPT !.defaults = DelOpt(@, k)]
    ELSE [c EXCEPT !.sections[IndexOfSection(c, s)].opts = DelOpt(@, k)]

RemoveSection(c, s) ==
    LET Other(x) == x.name # s IN [c EXCEPT !.sections = SelectSeq(@, Other)]

\* the option is found by parser.get(section, option): in the section or in DEFAULT
HasOption(c, s, k) ==
    \/ HasKey(c.defaults, k)
    \/ s # DEFAULT /\ HasKey(SectionOpts(c, s), k)

NoSectionError(section) == Result("NoSectionError", NoStr, section, NoStr, NoStr, <<>>)

NoOptionError(section, option) == Result("NoOptionError", NoStr, section, option, NoStr, <<>>)

-----------------------------------------------------------------------------
(* validation.py: class ValidConfig, and cli.py: class ConfigCLI.           *)
(* A method takes and returns the state of the process that runs it:       *)
(*   [cls, mem, file, status, err, out, log]                               *)

Called(st, what) == [st EXCEPT !.log = @ \o what]

Ended(st, how, e) == [st EXCEPT !.status = how, !.err = e]

\* the end of a _validate that exits whatever the class is
ValidatedExits(st, r) == IF r.kind = "ok" THEN st ELSE Ended(st, "exit1", r)

\* the end of _validate, r being what validate_config returned or raised:
\* ValidConfig._validate lets the error pass, ConfigCLI._validate logs it and exits 1
Validated(st, r) ==
    IF r.kind = "ok" THEN st
    ELSE IF st.cls = "ConfigCLI" THEN Ended(st, "exit1", r)
    ELSE Ended(st, "InvalidConfigError", r)

\* ValidConfig._validate, overridden by ConfigCLI._validate
Validate(st, schema) ==
    Validated(Called(st, <<"_validate">>), ValidateConfig(st.mem, schema))

\* the rest of save writing the sections of sections() alone, without DEFAULT
WriteSections(st) ==
    IF st.status # "running" THEN st
    ELSE IF st.cls # "ConfigCLI" THEN Ended(st, "AttributeError", None)
    ELSE [Called(st, <<"mkdir", "open", "write">>)
              EXCEPT !.file = WriteFile([st.mem EXCEPT !.defaults = <<>>])]

\* the rest of save: self._config_file is set by ConfigCLI.__init__ alone
Write(st) ==
    IF st.status # "running" THEN st
    ELSE IF st.cls # "ConfigCLI" THEN Ended(st, "AttributeError", None)
    ELSE [Called(st, <<"mkdir", "open", "write">>) EXCEPT !.file = WriteFile(st.mem)]

\* ValidConfig.save
Save(st, schema) == Write(Validate(Called(st, <<"save">>), schema))

\* __init__ without the call of _validate
LoadUnvalidated(st, schemaf, cs) ==
    LET st1 == Called(st, <<"read">>) IN
    IF st.file.exists /\ ~st.file.parses THEN Ended(st1, "ParsingError", None)
    ELSE LET m == IF st.file.exists THEN ReadFile(st.file.content, cs) ELSE EmptyParser
             st2 == Called([st1 EXCEPT !.mem = m], <<"_get_schema">>)
         IN  IF ~schemaf.exists THEN Ended(st2, "ValueError", None) ELSE st2

\* ValidConfig.__init__ (and ConfigCLI.__init__, which adds the two paths)
Load(st, schemaf, cs) ==
    LET st1 == Called(st, <<"read">>) IN
    IF st.file.exists /\ ~st.file.parses THEN Ended(st1, "ParsingError", None)
    ELSE LET m == IF st.file.exists THEN ReadFile(st.file.content, cs) ELSE EmptyParser
             st2 == Called([st1 EXCEPT !.mem = m], <<"_get_schema">>)
         IN  IF ~schemaf.exists THEN Ended(st2, "ValueError", None)
             ELSE Validate(st2, ReadSchema(schemaf))

\* ConfigCLI._set_option; add_section("DEFAULT") raises ValueError
SetOption(st, schema, cs, section, option, value) ==
    LET st1 == Called(st, <<"_set_option">>) IN
    IF ~HasSection(st1.mem, section) /\ section = DEFAULT
    THEN Ended(st1, "ValueError", None)
    ELSE LET m == IF HasSection(st1.mem, section) THEN st1.mem
                  ELSE AddSection(st1.mem, section)
         IN  Save([st1 EXCEPT !.mem = SetValue(m, section, OptionXForm(cs, option), value)],
                  schema)

\* _get_option with a get that falls back to the empty string
GetOptionWithFallback(st, cs, section, option) ==
    LET st1 == Called(st, <<"_get_option">>)
        k == OptionXForm(cs, option)
    IN  IF (section # DEFAULT /\ ~HasSection(st1.mem, section)) \/ ~HasOption(st1.mem, section, k)
        THEN [st1 EXCEPT !.out = Append(@, NoStr)]
        ELSE [st1 EXCEPT !.out = Append(@, GetItem(st1.mem, section, k))]

\* ConfigCLI._get_option
GetOption(st, cs, section, option) ==
    LET st1 == Called(st, <<"_get_option">>)
        k == OptionXForm(cs, option)
    IN  IF section # DEFAULT /\ ~HasSection(st1.mem, section)
        THEN Ended(st1, "exit1", NoSectionError(section))
        ELSE IF ~HasOption(st1.mem, section, k)
        THEN Ended(st1, "exit1", NoOptionError(section, k))
        ELSE [st1 EXCEPT !.out = Append(@, GetItem(st1.mem, section, k))]

\* _unset_option with a save after a remove_option that removed nothing
UnsetOptionSavesAnyway(st, schema, cs, section, option) ==
    LET st1 == Called(st, <<"_unset_option">>)
        k == OptionXForm(cs, option)
    IN  IF section # DEFAULT /\ ~HasSection(st1.mem, section)
        THEN Ended(st1, "exit1", NoSectionError(section))
        ELSE IF section = DEFAULT \/ ~HasKey(SectionOpts(st1.mem, section), k)
        THEN Save(st1, schema)
        ELSE LET m == RemoveOption(st1.mem, section, k)
             IN  Save([st1 EXCEPT !.mem = IF Options(m, section) = <<>>
                                           THEN RemoveSection(m, section) ELSE m],
                      schema)

\* _unset_option with a remove_option that takes a missing section for an empty one
UnsetOptionAnySection(st, schema, cs, section, option) ==
    LET st1 == Called(st, <<"_unset_option">>)
        k == OptionXForm(cs, option)
    IN  IF section = DEFAULT \/ ~HasSection(st1.mem, section) THEN st1
        ELSE IF ~HasKey(SectionOpts(st1.mem, section), k) THEN st1
        ELSE LET m == RemoveOption(st1.mem, section, k)
             IN  Save([st1 EXCEPT !.mem = IF Options(m, section) = <<>>
                                           THEN RemoveSection(m, section) ELSE m],
                      schema)

\* ConfigCLI._unset_option; options("DEFAULT") raises NoSectionError
UnsetOption(st, schema, cs, section, option) ==
    LET st1 == Called(st, <<"_unset_option">>)
        k == OptionXForm(cs, option)
    IN  IF section # DEFAULT /\ ~HasSection(st1.mem, section)
        THEN Ended(st1, "exit1", NoSectionError(section))
        ELSE IF section = DEFAULT
        THEN IF ~HasKey(st1.mem.defaults, k) THEN st1
             ELSE Ended([st1 EXCEPT !.mem = RemoveOption(@, section, k)], "exit1",
                        NoSectionError(section))
        ELSE IF ~HasKey(SectionOpts(st1.mem, section), k) THEN st1
        ELSE LET m == RemoveOption(st1.mem, section, k)
             IN  Save([st1 EXCEPT !.mem = IF Options(m, section) = <<>>
                                           THEN RemoveSection(m, section) ELSE m],
                      schema)

\* ConfigCLI._unset_all
UnsetAll(st, schema) ==
    Save([Called(st, <<"_unset_all">>) EXCEPT !.mem = Parser(@.defaults, <<>>)], schema)

\* the lines ConfigCLI._list prints for one section
ListLines(c, s) ==
    [i \in 1..Len(Options(c, s)) |->
        s \o <<".">> \o Options(c, s)[i] \o <<"=">> \o GetItem(c, s, Options(c, s)[i])]

RECURSIVE ListFrom(_, _)
ListFrom(c, n) ==
    IF n > Len(c.sections) THEN <<>>
    ELSE ListLines(c, Sections(c)[n]) \o ListFrom(c, n + 1)

\* ConfigCLI._list
List(st) == [Called(st, <<"_list">>) EXCEPT !.out = @ \o ListFrom(st.mem, 1)]

\* ConfigCLI._print_valid_config prints the text of the schema file, which the
\* model does not hold
PrintValidConfig(st) == Called(st, <<"_print_valid_config">>)

PrintHelp(st) == Called(st, <<"print_help">>)

\* \w of the regular expression of from_dot_notation
IsWord(ch) == ch \notin {" ", ".", "^", "$", ".*"}

\* _SectionOption.from_dot_notation: ^(?P<section>\w+)\.(?P<option>\w+)$
FromDotNotation(name) ==
    LET dots == {i \in 1..Len(name) : name[i] = "."} IN
    IF /\ Cardinality(dots) = 1
       /\ \A i \in 1..Len(name) : i \in dots \/ IsWord(name[i])
       /\ 1 \notin dots /\ Len(name) \notin dots
    THEN LET d == CHOOSE i \in dots : TRUE
         IN  [ok |-> TRUE, section |-> SubSeq(name, 1, d - 1),
              option |-> SubSeq(name, d + 1, Len(name))]
    ELSE [ok |-> FALSE, section |-> NoStr, option |-> NoStr]

\* An argument of the command line is <<>> when it is not given and <<string>> when
\* it is; Python takes None and the empty string for false
Truthy(arg) == arg # <<>> /\ arg[1] # <<>>

\* the command lines argparse accepts: at most one action
Argv(name, value, action, unset_name) ==
    [name |-> name, value |-> value, action |-> action, unset_name |-> unset_name]

\* ConfigCLI.run
RunCLI(st, schema, cs, a) ==
    LET st1 == Called(st, <<"run">>) IN
    IF Truthy(a.name)
    THEN IF a.action # "none" THEN Ended(st1, "exit2", None)
         ELSE LET parts == FromDotNotation(a.name[1]) IN
              IF ~parts.ok THEN Ended(st1, "exit2", None)
              ELSE IF Truthy(a.value)
              THEN SetOption(st1, schema, cs, parts.section, parts.option, a.value[1])
              ELSE GetOption(st1, cs, parts.section, parts.option)
    ELSE IF a.action = "unset" /\ Truthy(a.unset_name)
    THEN LET parts == FromDotNotation(a.unset_name[1]) IN
         IF ~parts.ok THEN Ended(st1, "exit2", None)
         ELSE UnsetOption(st1, schema, cs, parts.section, parts.option)
    ELSE IF a.action = "unset_all" THEN UnsetAll(st1, schema)
    ELSE IF a.action = "list" THEN List(st1)
    ELSE IF a.action = "list_valid_options" THEN PrintValidConfig(st1)
    ELSE PrintHelp(st1)

-----------------------------------------------------------------------------
(* Inputs of the command line tool *)

\* the processes; one of them runs at a time
Procs == {1, 2}

\* the schema files of the command line tool
SchemaFiles == {Absent, File(Schema1), File(Schema2), File(Schema6), File(Schema7)}

BLANK == <<" ">>

\* the option name "O", which str.lower turns into "o"
UPPER_O == <<"O">>

\* the config files the first invocation may find
InitFiles ==
    {Absent, Malformed,
     File(Parser(<<>>, <<Sec(A, <<Opt(O, V1)>>)>>)),
     File(Parser(<<>>, <<Sec(A, <<Opt(O, V12)>>)>>)),
     File(Parser(<<Opt(OP, V1)>>, <<Sec(A, <<Opt(O, V1)>>)>>)),
     File(Parser(<<>>, <<Sec(AB, <<Opt(O, V1)>>)>>)),
     File(Parser(<<>>, <<Sec(AB, <<Opt(UPPER_O, V1)>>)>>))}

\* the arguments of the command line
SecArgs == {A, AB, DEFAULT}

OptArgs == {O, OP, UPPER_O}

ValArgs == {V1, V12, BLANK}

\* the values a program that uses the library class sets option "o" to
LibValArgs == {V1, V12}

DotNames == {s \o <<".">> \o o : s \in SecArgs, o \in OptArgs}

\* no dot, trailing dot, leading dot, two dots, the empty string
BadNames == {A, A \o <<".">>, <<".">> \o O, A \o <<".">> \o O \o <<".">> \o O, NoStr}

NoArgv == Argv(<<>>, <<>>, "none", <<>>)

Argvs ==
    {Argv(<<n>>, <<v>>, "none", <<>>) : n \in DotNames, v \in ValArgs \cup {<<>>}}
    \cup {Argv(<<n>>, <<>>, "none", <<>>) : n \in DotNames \cup BadNames}
    \cup {Argv(<<>>, <<>>, "unset", <<n>>) : n \in DotNames \cup BadNames}
    \cup {Argv(<<>>, <<>>, a, <<>>) : a \in {"unset_all", "list", "list_valid_options", "none"}}
    \cup {Argv(<<A \o <<".">> \o O>>, <<>>, "list", <<>>)}

-----------------------------------------------------------------------------
(* The functions of validation.py applied to bounded inputs *)

\* no process, no file
CIdle ==
    /\ schemaFile = Absent
    /\ caseSensitive = FALSE
    /\ file0 = Absent
    /\ cfgFile = Absent
    /\ runs = 0
    /\ pc = [p \in Procs |-> "idle"]
    /\ cls = [p \in Procs |-> "none"]
    /\ mem = [p \in Procs |-> EmptyParser]
    /\ loaded = [p \in Procs |-> EmptyParser]
    /\ argv = [p \in Procs |-> NoArgv]
    /\ status = [p \in Procs |-> "none"]
    /\ err = [p \in Procs |-> None]
    /\ out = [p \in Procs |-> <<>>]
    /\ log = [p \in Procs |-> <<>>]

VInit ==
    /\ CIdle
    /\ vret = None
    /\ \/ /\ vop = "validate_config"
          /\ vconfig \in Configs
          /\ vschema \in Schemas
          /\ vname = NoStr
          /\ vlist = <<>>
       \/ /\ vop \in {"_validate_section", "_validate_option"}
          /\ vconfig = EmptyParser
          /\ vschema = EmptyParser
          /\ vname \in Names
          /\ vlist \in PatLists
       \/ /\ vop = "_validate_value"
          /\ vconfig = EmptyParser
          /\ vschema = EmptyParser
          /\ vname \in Names
          /\ vlist \in {<<p>> : p \in Patterns}

CallValidateConfig ==
    /\ vop = "validate_config" /\ vret = None
    /\ vret' = ValidateConfig(vconfig, vschema)
    /\ UNCHANGED <<vop, vconfig, vschema, vname, vlist, cvars>>

CallValidateSection ==
    /\ vop = "_validate_section" /\ vret = None
    /\ vret' = ValidateSection(vname, vlist)
    /\ UNCHANGED <<vop, vconfig, vschema, vname, vlist, cvars>>

CallValidateOption ==
    /\ vop = "_validate_option" /\ vret = None
    /\ vret' = ValidateOption(A, vname, vlist)
    /\ UNCHANGED <<vop, vconfig, vschema, vname, vlist, cvars>>

CallValidateValue ==
    /\ vop = "_validate_value" /\ vret = None
    /\ vret' = ValidateValue(A, O, vname, vlist[1])
    /\ UNCHANGED <<vop, vconfig, vschema, vname, vlist, cvars>>

VNext ==
    \/ CallValidateConfig
    \/ CallValidateSection
    \/ CallValidateOption
    \/ CallValidateValue

SpecValidate == VInit /\ [][VNext]_vars

-----------------------------------------------------------------------------
(* Regular expression matching stated by the positions a match can end at, *)
(* for the properties below.                                               *)

\* the positions after one token t, matched in s from a position of P
Step(t, s, P) ==
    CASE t = "^"  -> P \cap {1}
      [] t = "$"  -> P \cap {Len(s) + 1}
      [] t = "."  -> {i + 1 : i \in P \cap 1..Len(s)}
      [] t = ".*" -> {k \in 1..(Len(s) + 1) : \E i \in P : i <= k}
      [] OTHER    -> {i + 1 : i \in {x \in P \cap 1..Len(s) : s[x] = t}}

RECURSIVE EndsFrom(_, _, _, _)
EndsFrom(p, s, j, P) == IF j > Len(p) THEN P ELSE EndsFrom(p, s, j + 1, Step(p[j], s, P))

MatchesAtStart(p, s) == EndsFrom(p, s, 1, {1}) # {}

MatchesLater(p, s) == EndsFrom(p, s, 1, 2..(Len(s) + 1)) # {}

ConsumesAll(p, s) == (Len(s) + 1) \in EndsFrom(p, s, 1, {1})

\* the first pattern of pats that matches name at its start is the i-th
IsFirstMatch(pats, name, i) ==
    /\ i \in 1..Len(pats)
    /\ MatchesAtStart(pats[i], name)
    /\ \A j \in 1..(i - 1) : ~MatchesAtStart(pats[j], name)

-----------------------------------------------------------------------------
(* Properties of the functions of validation.py (SpecValidate) *)

\* the option patterns and the value pattern of schema entry sp accept option o of
\* section sec of config c: the first option pattern matching o has a value pattern
\* matching the value
EntryAccepts(c, s, sec, sp, o) ==
    \E k \in 1..Len(ListSection(s, sp)) :
        /\ IsFirstMatch(ListSection(s, sp), o, k)
        /\ MatchesAtStart(GetItem(s, sp, ListSection(s, sp)[k]), GetItem(c, sec, o))

\* every section matches some section pattern of the schema, every option of the
\* section some option pattern of the entry matched, every value its value pattern
Conforms(c, s) ==
    \A n \in 1..Len(c.sections) :
        LET sec == c.sections[n].name IN
        \E i \in 1..Len(Sections(s)) :
            /\ IsFirstMatch(Sections(s), sec, i)
            /\ \A m \in 1..Len(Options(c, sec)) :
                   EntryAccepts(c, s, sec, Sections(s)[i], Options(c, sec)[m])

\* C1: validate_config(C, S) succeeds if and only if every section of C matches a
\* section pattern of S, every option of the section an option pattern of the matched
\* entry and every value the value pattern of that option pattern; otherwise it
\* raises an InvalidConfigError
C1_ValidIffConforms ==
    (vop = "validate_config" /\ vret # None) =>
        /\ (vret.kind = "ok") <=> Conforms(vconfig, vschema)
        /\ vret.kind # "ok" => IsInvalidConfigError(vret)

\* C4: _validate_section and _validate_option return the earliest pattern of the list
\* that matches the name, as the pattern string itself
C4_FirstMatchReturned ==
    (vop \in {"_validate_section", "_validate_option"} /\ vret.kind = "ok") =>
        \E i \in 1..Len(vlist) : IsFirstMatch(vlist, vname, i) /\ vret.ret = vlist[i]

\* C4 witness: "ab" against <<"b", ".*", "a">>: ".*" and "a" both match, ".*" is returned
C4_Witness ==
    /\ vop = "_validate_section"
    /\ vname = AB
    /\ vlist = <<B, <<".*">>, A>>
    /\ vret = Ok(<<".*">>)

\* C5: a name or value is accepted exactly when some pattern matches it from its
\* first character on, consumed to its end or not; sections, options and values alike
C5_PrefixAnchored ==
    vret # None =>
        LET hit == \E i \in 1..Len(vlist) : MatchesAtStart(vlist[i], vname) IN
        CASE vop = "_validate_section" -> (vret.kind = "ok") <=> (vname # DEFAULT /\ hit)
          [] vop = "_validate_option"  -> (vret.kind = "ok") <=> hit
          [] vop = "_validate_value"   -> (vret.kind = "ok") <=> hit
          [] OTHER -> TRUE

\* C5 witness: the value "ab" is accepted by the pattern "a", which leaves "b" unconsumed
C5_Witness ==
    /\ vop = "_validate_value"
    /\ vname = AB
    /\ vlist = <<A>>
    /\ ~ConsumesAll(A, AB)
    /\ vret.kind = "ok"

\* C7: a section named DEFAULT is rejected with InvalidSectionError by every pattern list
C7_DefaultRejected ==
    (vop = "_validate_section" /\ vname = DEFAULT /\ vret # None) =>
        vret.kind = "InvalidSectionError"

\* C7 witness: DEFAULT against a list holding "DEFAULT" and the catch-all ".*"
C7_Witness ==
    /\ vop = "_validate_section"
    /\ vname = DEFAULT
    /\ vlist = <<DEFAULT, <<".*">>>>
    /\ vret.kind = "InvalidSectionError"

-----------------------------------------------------------------------------
(* The order of the checks of validate_config *)

\* the schema entry section n of config c is checked against (the first match)
EntryOf(c, s, n) ==
    ListParser(s)[CHOOSE i \in 1..Len(ListParser(s)) :
                      IsFirstMatch(ListParser(s), Sections(c)[n], i)]

NameBad(c, s, n) ==
    ~\E i \in 1..Len(ListParser(s)) : IsFirstMatch(ListParser(s), Sections(c)[n], i)

\* the option pattern the k-th option of section n is checked against
OptPatOf(c, s, n, k) ==
    LET pats == ListSection(s, EntryOf(c, s, n)) IN
    pats[CHOOSE j \in 1..Len(pats) : IsFirstMatch(pats, Options(c, Sections(c)[n])[k], j)]

OptBad(c, s, n, k) ==
    LET pats == ListSection(s, EntryOf(c, s, n)) IN
    ~\E j \in 1..Len(pats) : IsFirstMatch(pats, Options(c, Sections(c)[n])[k], j)

ValBad(c, s, n, k) ==
    /\ ~OptBad(c, s, n, k)
    /\ ~MatchesAtStart(GetItem(s, EntryOf(c, s, n), OptPatOf(c, s, n, k)),
                       GetItem(c, Sections(c)[n], Options(c, Sections(c)[n])[k]))

\* the checks that fail: <<n, 0>> the name of section n, <<n, k>> its k-th option or
\* the value of that option; the options of a section with a bad name are not checked
Violations(c, s) ==
    {<<n, 0>> : n \in {m \in 1..Len(c.sections) : NameBad(c, s, m)}}
    \cup UNION {{<<n, k>> : k \in {x \in 1..Len(Options(c, Sections(c)[n])) :
                                       OptBad(c, s, n, x) \/ ValBad(c, s, n, x)}} :
                n \in {m \in 1..Len(c.sections) : ~NameBad(c, s, m)}}

Before(v, w) == v[1] < w[1] \/ (v[1] = w[1] /\ v[2] <= w[2])

\* the error of the check at v
ErrorAt(c, s, v) ==
    LET n == v[1]
        k == v[2]
        NotDefault(x) == x # DEFAULT
        sec == Sections(c)[n]
    IN  IF k = 0 THEN InvalidSectionError(sec, SelectSeq(ListParser(s), NotDefault))
        ELSE IF OptBad(c, s, n, k)
        THEN InvalidOptionError(sec, Options(c, sec)[k], ListSection(s, EntryOf(c, s, n)))
        ELSE InvalidValueError(sec, Options(c, sec)[k], GetItem(c, sec, Options(c, sec)[k]),
                               GetItem(s, EntryOf(c, s, n), OptPatOf(c, s, n, k)))

\* the result is ok when no check of V fails, else the error of the first check of V
ReportsFirstOf(V) ==
    IF V = {} THEN vret.kind = "ok"
    ELSE \E v \in V :
            /\ \A w \in V : Before(v, w)
            /\ vret = ErrorAt(vconfig, vschema, v)

\* C6: validate_config reports exactly one error, that of the first check that fails
\* in the order: sections in insertion order, the name of a section before its
\* options, the options in insertion order, the name of an option before its value
C6_FirstViolationReported ==
    (vop = "validate_config" /\ vret # None) =>
        ReportsFirstOf(Violations(vconfig, vschema))

\* C6 witness: the value of an option of the first section is reported although the
\* name of the second section is invalid too
C6_Witness ==
    /\ vop = "validate_config"
    /\ Len(vconfig.sections) = 2
    /\ <<2, 0>> \in Violations(vconfig, vschema)
    /\ vret.kind = "InvalidValueError"
    /\ vret.section = Sections(vconfig)[1]

-----------------------------------------------------------------------------
(* The command line tool and the library class as processes on one file *)

Init ==
    /\ vop = "none" /\ vconfig = EmptyParser /\ vschema = EmptyParser
    /\ vname = NoStr /\ vlist = <<>> /\ vret = None
    /\ schemaFile \in SchemaFiles
    /\ caseSensitive \in BOOLEAN
    /\ file0 \in InitFiles
    /\ cfgFile = file0
    /\ runs = 0
    /\ pc = [p \in Procs |-> "idle"]
    /\ cls = [p \in Procs |-> "none"]
    /\ mem = [p \in Procs |-> EmptyParser]
    /\ loaded = [p \in Procs |-> EmptyParser]
    /\ argv = [p \in Procs |-> NoArgv]
    /\ status = [p \in Procs |-> "none"]
    /\ err = [p \in Procs |-> None]
    /\ out = [p \in Procs |-> <<>>]
    /\ log = [p \in Procs |-> <<>>]

\* the state of process p, handed to the methods
St(p) ==
    [cls |-> cls[p], mem |-> mem[p], file |-> cfgFile, status |-> status[p],
     err |-> err[p], out |-> out[p], log |-> log[p]]

\* process p takes the state a method returned
Take(p, st) ==
    /\ cls' = [cls EXCEPT ![p] = st.cls]
    /\ mem' = [mem EXCEPT ![p] = st.mem]
    /\ cfgFile' = st.file
    /\ status' = [status EXCEPT ![p] = st.status]
    /\ err' = [err EXCEPT ![p] = st.err]
    /\ out' = [out EXCEPT ![p] = st.out]
    /\ log' = [log EXCEPT ![p] = st.log]

\* ConfigCLI(config_file, schema_file) or ValidConfig(config_file, schema_file)
Construct(p, k) ==
    /\ pc[p] = "idle"
    /\ runs < MaxRuns
    /\ runs' = runs + 1
    /\ LET st == Load([cls |-> k, mem |-> EmptyParser, file |-> cfgFile, status |-> "running",
                       err |-> None, out |-> <<>>, log |-> <<>>], schemaFile, caseSensitive)
       IN  /\ Take(p, st)
           /\ loaded' = [loaded EXCEPT ![p] = st.mem]
           /\ pc' = [pc EXCEPT ![p] = IF st.status = "running" THEN "loaded" ELSE "done"]
    /\ UNCHANGED <<vvars, schemaFile, caseSensitive, file0, argv>>

\* a run() on a store that reads the config file again before it acts
RunReloading(p, a) ==
    /\ pc[p] = "loaded"
    /\ cls[p] = "ConfigCLI"
    /\ LET now == IF cfgFile.exists /\ cfgFile.parses
                  THEN ReadFile(cfgFile.content, caseSensitive) ELSE mem[p]
           st == RunCLI([St(p) EXCEPT !.mem = now], ReadSchema(schemaFile), caseSensitive, a)
       IN  Take(p, IF st.status = "running" THEN [st EXCEPT !.status = "exit0"] ELSE st)
    /\ argv' = [argv EXCEPT ![p] = a]
    /\ pc' = [pc EXCEPT ![p] = "done"]
    /\ UNCHANGED <<vvars, schemaFile, caseSensitive, file0, runs, loaded>>

\* config.run() of a ConfigCLI with the command line a; the process ends
Run(p, a) ==
    /\ pc[p] = "loaded"
    /\ cls[p] = "ConfigCLI"
    /\ LET st == RunCLI(St(p), ReadSchema(schemaFile), caseSensitive, a)
       IN  Take(p, IF st.status = "running" THEN [st EXCEPT !.status = "exit0"] ELSE st)
    /\ argv' = [argv EXCEPT ![p] = a]
    /\ pc' = [pc EXCEPT ![p] = "done"]
    /\ UNCHANGED <<vvars, schemaFile, caseSensitive, file0, runs, loaded>>

\* config.set(section, option, value) of a ValidConfig, a method of ConfigParser
LibSet(p, section, option, value) ==
    /\ pc[p] = "loaded"
    /\ cls[p] = "ValidConfig"
    /\ HasSection(mem[p], section)
    /\ mem' = [mem EXCEPT ![p] = SetValue(@, section, OptionXForm(caseSensitive, option), value)]
    /\ mem'[p] # mem[p]
    /\ UNCHANGED <<vvars, schemaFile, caseSensitive, file0, cfgFile, runs, pc, cls, loaded,
                   argv, status, err, out, log>>

\* config.save() of a ValidConfig; the model follows the store no further
LibSave(p) ==
    /\ pc[p] = "loaded"
    /\ cls[p] = "ValidConfig"
    /\ LET st == Save(St(p), ReadSchema(schemaFile))
       IN  Take(p, IF st.status = "running" THEN [st EXCEPT !.status = "returned"] ELSE st)
    /\ pc' = [pc EXCEPT ![p] = "done"]
    /\ UNCHANGED <<vvars, schemaFile, caseSensitive, file0, runs, loaded, argv>>

\* the process is gone
Exit(p) ==
    /\ pc[p] = "done"
    /\ pc' = [pc EXCEPT ![p] = "idle"]
    /\ cls' = [cls EXCEPT ![p] = "none"]
    /\ mem' = [mem EXCEPT ![p] = EmptyParser]
    /\ loaded' = [loaded EXCEPT ![p] = EmptyParser]
    /\ argv' = [argv EXCEPT ![p] = NoArgv]
    /\ status' = [status EXCEPT ![p] = "none"]
    /\ err' = [err EXCEPT ![p] = None]
    /\ out' = [out EXCEPT ![p] = <<>>]
    /\ log' = [log EXCEPT ![p] = <<>>]
    /\ UNCHANGED <<vvars, schemaFile, caseSensitive, file0, cfgFile, runs>>

\* one process at a time
Next ==
    \/ \E k \in {"ConfigCLI", "ValidConfig"} : Construct(1, k)
    \/ \E a \in Argvs : Run(1, a)
    \/ \E s \in SecArgs, v \in LibValArgs : LibSet(1, s, O, v)
    \/ LibSave(1)
    \/ Exit(1)

Spec == Init /\ [][Next]_vars

\* the command lines of concurrent invocations: those that change the configuration
MutatingArgvs ==
    {Argv(<<n>>, <<v>>, "none", <<>>) : n \in {A \o <<".">> \o O, A \o <<".">> \o OP},
                                       v \in {V1, V12}}
    \cup {Argv(<<>>, <<>>, "unset", <<n>>) : n \in {A \o <<".">> \o O, A \o <<".">> \o OP}}
    \cup {Argv(<<>>, <<>>, "unset_all", <<>>)}

\* concurrent invocations start from no file or from a valid one, with a schema
InitConcurrent ==
    /\ Init
    /\ schemaFile \in {File(Schema1), File(Schema2)}
    /\ ~caseSensitive
    /\ file0 \in {Absent, File(Parser(<<>>, <<Sec(A, <<Opt(O, V1)>>)>>))}

\* two invocations of the command line tool at a time, on one file, with nothing
\* that makes one wait for the other
NextConcurrent ==
    \E p \in Procs :
        \/ Construct(p, "ConfigCLI")
        \/ \E a \in MutatingArgvs : Run(p, a)
        \/ Exit(p)

SpecConcurrent == InitConcurrent /\ [][NextConcurrent]_vars

-----------------------------------------------------------------------------
(* Properties of the stores and of the command line tool (Spec) *)

TheSchema == ReadSchema(schemaFile)

\* what a store constructed now would read from file f
AsRead(f) == ReadFile(f.content, caseSensitive)

\* validate accepts what a store reads from file f
FileValid(f) ==
    /\ f.parses
    /\ schemaFile.exists
    /\ ValidateConfig(AsRead(f), TheSchema).kind = "ok"

Has(l, what) == \E i \in 1..Len(l) : l[i] = what

Count(l, what) == Cardinality({i \in 1..Len(l) : l[i] = what})

\* the calls of l from the last call of save on
FromSave(l) ==
    SubSeq(l, CHOOSE i \in 1..Len(l) : l[i] = "save" /\ \A j \in (i + 1)..Len(l) : l[j] # "save",
           Len(l))

\* C2: starting from a file that validate accepts, the file on disk is one validate
\* accepts after any sequence of invocations of the command line tool
C2_FileStaysValid == (file0.exists /\ FileValid(file0)) => FileValid(cfgFile)

\* C3: save validates first; with an invalid configuration nothing is created, opened
\* or written and the validation error is surfaced, with a valid one the whole
\* configuration is written, in the order validate, mkdir, open, write
C3_SaveValidatesThenWrites ==
    [][\A p \in Procs :
        (log'[p] # log[p] /\ Has(log'[p], "save")) =>
            IF ValidateConfig(mem'[p], TheSchema).kind # "ok"
            THEN /\ FromSave(log'[p]) = <<"save", "_validate">>
                 /\ cfgFile' = cfgFile
                 /\ err'[p] = ValidateConfig(mem'[p], TheSchema)
            ELSE /\ FromSave(log'[p]) = <<"save", "_validate", "mkdir", "open", "write">>
                 /\ cfgFile' = WriteFile(mem'[p])]_vars

\* C8: a store whose config violates the schema is never constructed: the constructor
\* ends with the validation error, and nothing is called on the store
C8_LoadValidates ==
    \A p \in Procs :
        (pc[p] # "idle" /\ schemaFile.exists
            /\ ValidateConfig(loaded[p], TheSchema).kind # "ok") =>
                /\ pc[p] = "done"
                /\ log[p] = <<"read", "_get_schema", "_validate">>
                /\ err[p] = ValidateConfig(loaded[p], TheSchema)
                /\ IsInvalidConfigError(err[p])
                /\ status[p] = IF cls[p] = "ConfigCLI" THEN "exit1" ELSE "InvalidConfigError"

\* C8 witness: a ValidConfig on a file with a value its schema rejects
C8_Witness ==
    /\ cls[1] = "ValidConfig"
    /\ pc[1] = "done"
    /\ loaded[1] = Parser(<<>>, <<Sec(A, <<Opt(O, V12)>>)>>)
    /\ err[1].kind = "InvalidValueError"
    /\ status[1] = "InvalidConfigError"

\* C9: without a schema file the constructor ends with ValueError before
\* any validation, whatever the config file is
C9_MissingSchemaIsValueError ==
    \A p \in Procs :
        (pc[p] # "idle" /\ ~schemaFile.exists) =>
            status[p] = "ValueError" /\ ~Has(log[p], "_validate")

\* run() was handed NAME VALUE, a set of section.option
IsSet(a) == Truthy(a.name) /\ a.action = "none" /\ FromDotNotation(a.name[1]).ok /\ Truthy(a.value)

\* config m is config l with the one option k of section s set to v
OneChange(l, m, s, k, v) ==
    /\ m.defaults = l.defaults
    /\ Sections(m) = Sections(l) \o (IF HasSection(l, s) THEN <<>> ELSE <<s>>)
    /\ \A x \in 1..Len(l.sections) : l.sections[x].name # s => m.sections[x] = l.sections[x]
    /\ LET old == IF HasSection(l, s) THEN SectionOpts(l, s) ELSE <<>>
           new == SectionOpts(m, s)
       IN  /\ Keys(new) = Keys(old) \o (IF HasKey(old, k) THEN <<>> ELSE <<k>>)
           /\ \A x \in 1..Len(old) : old[x].key # k => new[x] = old[x]
           /\ ValueOf(new, k) = v

\* C10: a set creates the section when it is absent, writes the one option, leaves
\* the rest as it was and calls save once; a valid result is what the file holds
\* afterwards, and a value the option's value pattern rejects ends in InvalidValueError
C10_SetWritesOneChange ==
    \A p \in Procs :
        (pc[p] = "done" /\ IsSet(argv[p])) =>
            LET s == FromDotNotation(argv[p].name[1]).section
                k == OptionXForm(caseSensitive, FromDotNotation(argv[p].name[1]).option)
                v == argv[p].value[1]
            IN  /\ Count(log[p], "save") = 1
                /\ OneChange(loaded[p], mem[p], s, k, v)
                /\ ValidateConfig(mem[p], TheSchema).kind = "ok" =>
                       status[p] = "exit0" /\ cfgFile = WriteFile(mem[p])
                /\ \A i \in 1..Len(ListParser(TheSchema)) :
                       \A j \in 1..Len(ListSection(TheSchema, ListParser(TheSchema)[i])) :
                           LET sp == ListParser(TheSchema)[i]
                               op == ListSection(TheSchema, sp)[j]
                           IN  (/\ IsFirstMatch(ListParser(TheSchema), s, i)
                                /\ IsFirstMatch(ListSection(TheSchema, sp), k, j)
                                /\ ~MatchesAtStart(GetItem(TheSchema, sp, op), v)) =>
                                   /\ status[p] = "exit1"
                                   /\ err[p] = InvalidValueError(s, k, v, GetItem(TheSchema, sp, op))

-----------------------------------------------------------------------------
(* unset, unset-all, list and get *)

\* run() was handed --unset NAME, NAME a section.option
IsUnset(a) ==
    ~Truthy(a.name) /\ a.action = "unset" /\ Truthy(a.unset_name)
        /\ FromDotNotation(a.unset_name[1]).ok

UnsetSection(a) == FromDotNotation(a.unset_name[1]).section

\* the option of --unset NAME as the store names it
UnsetKey(a) == OptionXForm(caseSensitive, FromDotNotation(a.unset_name[1]).option)

\* process p takes the step of run() with a command line for which Is holds
Runs(p, Is(_)) == pc[p] = "loaded" /\ pc'[p] = "done" /\ cls[p] = "ConfigCLI" /\ Is(argv'[p])

\* C11: unset of an option that its existing section does not hold is no error,
\* changes nothing in memory, calls no save and leaves the file as it was
C11_UnsetAbsentOptionIsNoOp ==
    [][\A p \in Procs :
        (/\ Runs(p, IsUnset)
         /\ HasSection(mem[p], UnsetSection(argv'[p]))
         /\ ~HasKey(SectionOpts(mem[p], UnsetSection(argv'[p])), UnsetKey(argv'[p]))) =>
            /\ status'[p] = "exit0"
            /\ err'[p] = None
            /\ mem'[p] = mem[p]
            /\ ~Has(log'[p], "save")
            /\ cfgFile' = cfgFile]_vars

\* C11 witness: --unset a.op on the file [a] o = 1 has ended with exit 0
C11_Witness ==
    /\ pc[1] = "done"
    /\ argv[1] = Argv(<<>>, <<>>, "unset", <<A \o <<".">> \o OP>>)
    /\ loaded[1] = Parser(<<>>, <<Sec(A, <<Opt(O, V1)>>)>>)
    /\ mem[1] = loaded[1]
    /\ cfgFile = File(loaded[1])
    /\ status[1] = "exit0"

\* the own options of section s of config c, <<>> when c has no such section
OwnOpts(c, s) == IF HasSection(c, s) THEN SectionOpts(c, s) ELSE <<>>

\* C12: unset of an option its section holds removes the option and calls save; the
\* section goes with its last option, so that the file written has no header of
\* it, and stays, less the one option, when it holds other options
C12_UnsetRemovesEmptiedSection ==
    [][\A p \in Procs :
        (/\ Runs(p, IsUnset)
         /\ HasSection(mem[p], UnsetSection(argv'[p]))
         /\ HasKey(SectionOpts(mem[p], UnsetSection(argv'[p])), UnsetKey(argv'[p]))) =>
            LET s == UnsetSection(argv'[p])
                k == UnsetKey(argv'[p])
            IN  /\ FromSave(log'[p]) = <<"save", "_validate", "mkdir", "open", "write">>
                /\ cfgFile' = WriteFile(mem'[p])
                /\ mem'[p].defaults = mem[p].defaults
                /\ \A x \in 1..Len(mem[p].sections) :
                       mem[p].sections[x].name # s =>
                           mem[p].sections[x] \in {mem'[p].sections[y] : y \in 1..Len(mem'[p].sections)}
                /\ IF Len(SectionOpts(mem[p], s)) = 1
                   THEN ~HasSection(cfgFile'.content, s)
                   ELSE /\ HasSection(cfgFile'.content, s)
                        /\ SectionOpts(cfgFile'.content, s) = DelOpt(SectionOpts(mem[p], s), k)]_vars

\* C13: unset in a section the configuration does not have (DEFAULT, which every
\* configuration has, aside) ends with NoSectionError and exit 1; no save is called
\* and the file is left as it was
C13_UnsetInMissingSectionExits1 ==
    [][\A p \in Procs :
        (/\ Runs(p, IsUnset)
         /\ UnsetSection(argv'[p]) # DEFAULT
         /\ ~HasSection(mem[p], UnsetSection(argv'[p]))) =>
            /\ status'[p] = "exit1"
            /\ err'[p] = NoSectionError(UnsetSection(argv'[p]))
            /\ mem'[p] = mem[p]
            /\ ~Has(log'[p], "save")
            /\ cfgFile' = cfgFile]_vars

\* C13 witness: --unset ab.o on the file [a] o = 1 has ended with exit 1
C13_Witness ==
    /\ pc[1] = "done"
    /\ argv[1] = Argv(<<>>, <<>>, "unset", <<AB \o <<".">> \o O>>)
    /\ loaded[1] = Parser(<<>>, <<Sec(A, <<Opt(O, V1)>>)>>)
    /\ cfgFile = File(loaded[1])
    /\ err[1].kind = "NoSectionError"
    /\ status[1] = "exit1"

\* run() was handed --unset-all
IsUnsetAll(a) == ~Truthy(a.name) /\ a.action = "unset_all"

\* C14: unset-all calls save once and leaves a file that holds no section, no
\* option and no value, whatever configuration was loaded
C14_UnsetAllEmptiesFile ==
    [][\A p \in Procs :
        Runs(p, IsUnsetAll) =>
            /\ Count(log'[p], "save") = 1
            /\ status'[p] = "exit0"
            /\ cfgFile' = WriteFile(EmptyParser)]_vars

\* run() was handed --list
IsList(a) == ~Truthy(a.name) /\ a.action = "list"

\* the line section.option=value
Line(s, k, v) == s \o <<".">> \o k \o <<"=">> \o v

\* one line for each option held by section n and the sections after it, in order
RECURSIVE OwnLinesFrom(_, _)
OwnLinesFrom(c, n) ==
    IF n > Len(c.sections) THEN <<>>
    ELSE [i \in 1..Len(c.sections[n].opts) |->
             Line(c.sections[n].name, c.sections[n].opts[i].key, c.sections[n].opts[i].value)]
         \o OwnLinesFrom(c, n + 1)

\* a line of an option of the DEFAULT section
IsDefaultLine(l) ==
    Len(l) > Len(DEFAULT) /\ SubSeq(l, 1, Len(DEFAULT) + 1) = DEFAULT \o <<".">>

\* C15: list prints one line section.option=value for each option set in the
\* configuration and nothing else, those of the sections in the order of the sections
\* and of their options, and changes neither the configuration nor the file
C15_ListPrintsOptionsSet ==
    [][\A p \in Procs :
        Runs(p, IsList) =>
            LET NotDefaultLine(l) == ~IsDefaultLine(l) IN
            /\ SelectSeq(out'[p], NotDefaultLine) = OwnLinesFrom(mem[p], 1)
            /\ Len(out'[p]) = Len(OwnLinesFrom(mem[p], 1)) + Len(mem[p].defaults)
            /\ status'[p] = "exit0"
            /\ mem'[p] = mem[p]
            /\ ~Has(log'[p], "save")
            /\ cfgFile' = cfgFile]_vars

\* run() was handed NAME alone (or NAME and an empty VALUE), a get of section.option
IsGet(a) ==
    Truthy(a.name) /\ a.action = "none" /\ FromDotNotation(a.name[1]).ok /\ ~Truthy(a.value)

\* C16: get prints the value of section.option when the section holds the option (or
\* inherits it from DEFAULT); with no such section, or no such option in it, it
\* prints nothing, reports NoSectionError or NoOptionError and exits 1; it never
\* calls save and changes neither the configuration nor the file
C16_GetPrintsOrExits1 ==
    [][\A p \in Procs :
        Runs(p, IsGet) =>
            LET s == FromDotNotation(argv'[p].name[1]).section
                k == OptionXForm(caseSensitive, FromDotNotation(argv'[p].name[1]).option)
            IN  /\ ~Has(log'[p], "save")
                /\ mem'[p] = mem[p]
                /\ cfgFile' = cfgFile
                /\ IF HasKey(OwnOpts(mem[p], s), k)
                   THEN /\ out'[p] = <<ValueOf(SectionOpts(mem[p], s), k)>>
                        /\ status'[p] = "exit0"
                   ELSE IF s # DEFAULT /\ ~HasSection(mem[p], s)
                   THEN /\ out'[p] = <<>>
                        /\ err'[p] = NoSectionError(s)
                        /\ status'[p] = "exit1"
                   ELSE IF ~HasKey(mem[p].defaults, k)
                   THEN /\ out'[p] = <<>>
                        /\ err'[p] = NoOptionError(s, k)
                        /\ status'[p] = "exit1"
                   ELSE /\ out'[p] = <<ValueOf(mem[p].defaults, k)>>
                        /\ status'[p] = "exit0"]_vars

\* C16 witness: a get of a.op on the file [a] o = 1 has ended with NoOptionError
C16_Witness ==
    /\ pc[1] = "done"
    /\ argv[1] = Argv(<<A \o <<".">> \o OP>>, <<>>, "none", <<>>)
    /\ loaded[1] = Parser(<<>>, <<Sec(A, <<Opt(O, V1)>>)>>)
    /\ out[1] = <<>>
    /\ err[1] = NoOptionError(A, OP)
    /\ status[1] = "exit1"

\* the NAME of the command line, positional or of --unset; <<>> when there is none
NameGiven(a) ==
    IF a.name # <<>> THEN a.name ELSE IF a.action = "unset" THEN a.unset_name ELSE <<>>

\* run() was handed a NAME that is not section.option
IsBadName(a) == NameGiven(a) # <<>> /\ ~FromDotNotation(NameGiven(a)[1]).ok

\* C17: a NAME that is not section.option (no dot, leading dot, trailing dot, two
\* dots, the empty string) ends run() with exit 2 before any get, set, unset or save
C17_BadNameExits2 ==
    [][\A p \in Procs :
        Runs(p, IsBadName) =>
            /\ status'[p] = "exit2"
            /\ log'[p] = log[p] \o <<"run">>
            /\ mem'[p] = mem[p]
            /\ cfgFile' = cfgFile]_vars

-----------------------------------------------------------------------------
(* The library class and the command line class *)

\* C18: a ValidConfig never ends the process: a validation failure of its load or
\* its save is the InvalidConfigError raised; only a ConfigCLI turns an
\* InvalidConfigError into exit 1
C18_OnlyCLIExits ==
    \A p \in Procs :
        /\ cls[p] = "ValidConfig" =>
              /\ status[p] \notin {"exit0", "exit1", "exit2"}
              /\ IsInvalidConfigError(err[p]) => status[p] = "InvalidConfigError"
              /\ (pc[p] = "done" /\ schemaFile.exists
                    /\ ValidateConfig(mem[p], TheSchema).kind # "ok") =>
                     /\ status[p] = "InvalidConfigError"
                     /\ err[p] = ValidateConfig(mem[p], TheSchema)
        /\ (cls[p] = "ConfigCLI" /\ IsInvalidConfigError(err[p])) => status[p] = "exit1"

\* C18 witness: the save of a ValidConfig whose option "o" was set to "12" has raised
\* InvalidValueError
C18_Witness ==
    /\ cls[1] = "ValidConfig"
    /\ pc[1] = "done"
    /\ Has(log[1], "save")
    /\ err[1].kind = "InvalidValueError"
    /\ status[1] = "InvalidConfigError"

-----------------------------------------------------------------------------
(* The case of option names *)

\* run() was handed a get, a set or an unset of a section.option
IsNamed(a) == IsGet(a) \/ IsSet(a) \/ IsUnset(a)

\* section and option of such a command line
PartsOf(a) == FromDotNotation(NameGiven(a)[1])

LowerCase(option) == [i \in 1..Len(option) |-> Lower(option[i])]

\* the command line with the option of its NAME in lower case
WithLowerName(a) ==
    LET n == <<PartsOf(a).section \o <<".">> \o LowerCase(PartsOf(a).option)>> IN
    IF a.name # <<>> THEN [a EXCEPT !.name = n] ELSE [a EXCEPT !.unset_name = n]

\* the option k of section s is in c what it is in d: missing, or set to the same value
SameEntry(c, d, s, k) ==
    /\ HasKey(OwnOpts(c, s), k) <=> HasKey(OwnOpts(d, s), k)
    /\ HasKey(OwnOpts(c, s), k) => ValueOf(OwnOpts(c, s), k) = ValueOf(OwnOpts(d, s), k)

\* C19: by default the store names its options in lower case, on load and in get, set
\* and unset, so that a NAME does what the same NAME in lower case does; a case
\* sensitive store keeps the names as written, and a get, set or unset of an option
\* leaves those that differ from it in case alone; the validator is handed the names
\* the store holds
C19_OptionNameCase ==
    [][\A p \in Procs :
        /\ (pc[p] = "idle" /\ pc'[p] # "idle" /\ cfgFile.exists /\ cfgFile.parses) =>
              /\ loaded'[p].defaults = ReadOpts(cfgFile.content.defaults, caseSensitive)
              /\ Len(loaded'[p].sections) = Len(cfgFile.content.sections)
              /\ \A x \in 1..Len(cfgFile.content.sections) :
                    Keys(loaded'[p].sections[x].opts) =
                        [i \in 1..Len(cfgFile.content.sections[x].opts) |->
                            IF caseSensitive THEN cfgFile.content.sections[x].opts[i].key
                            ELSE LowerCase(cfgFile.content.sections[x].opts[i].key)]
        /\ Runs(p, IsNamed) =>
              LET a == argv'[p]
                  s == PartsOf(a).section
                  k == PartsOf(a).option
                  r == RunCLI(St(p), TheSchema, caseSensitive, WithLowerName(a))
              IN  /\ ~caseSensitive =>
                        /\ mem'[p] = r.mem
                        /\ cfgFile' = r.file
                        /\ out'[p] = r.out
                        /\ err'[p] = r.err
                        /\ status'[p] = IF r.status = "running" THEN "exit0" ELSE r.status
                  /\ caseSensitive =>
                        /\ \A k2 \in {LowerCase(k), UPPER_O} \ {k} : SameEntry(mem'[p], mem[p], s, k2)
                        /\ (IsSet(a) /\ s # DEFAULT) => HasKey(OwnOpts(mem'[p], s), k)
                        /\ (IsGet(a) /\ HasKey(OwnOpts(mem[p], s), k)) =>
                               out'[p] = <<ValueOf(OwnOpts(mem[p], s), k)>>
                        /\ (IsUnset(a) /\ s # DEFAULT) => ~HasKey(OwnOpts(mem'[p], s), k)
                  /\ (IsSet(a) /\ err'[p].kind \in {"InvalidOptionError", "InvalidValueError"}) =>
                        err'[p].option = OptionXForm(caseSensitive, k)]_vars

\* C19 witness: by default the file [ab] O = 1 is loaded as [ab] o = 1 and a get of
\* ab.O has printed 1
C19_Witness ==
    /\ ~caseSensitive
    /\ pc[1] = "done"
    /\ cfgFile = File(Parser(<<>>, <<Sec(AB, <<Opt(UPPER_O, V1)>>)>>))
    /\ loaded[1] = Parser(<<>>, <<Sec(AB, <<Opt(O, V1)>>)>>)
    /\ argv[1] = Argv(<<AB \o <<".">> \o UPPER_O>>, <<>>, "none", <<>>)
    /\ out[1] = <<V1>>
    /\ status[1] = "exit0"

\* a case sensitive store holds "o" and "O" as two options of one section
C19_WitnessCaseSensitive ==
    /\ caseSensitive
    /\ pc[1] = "done"
    /\ Keys(OwnOpts(mem[1], AB)) = <<O, UPPER_O>>
    /\ cfgFile = File(mem[1])
    /\ status[1] = "exit0"

-----------------------------------------------------------------------------
(* Round trip *)

\* c is a configuration a store of the mode can hold: its option names are those
\* optionxform gives
IsStoreConfig(c) ==
    /\ \A i \in 1..Len(c.defaults) :
           OptionXForm(caseSensitive, c.defaults[i].key) = c.defaults[i].key
    /\ \A x \in 1..Len(c.sections) : \A i \in 1..Len(c.sections[x].opts) :
           OptionXForm(caseSensitive, c.sections[x].opts[i].key) = c.sections[x].opts[i].key

\* the file is a valid configuration C of the mode, as write put it there
HoldsValidConfig(f) ==
    /\ f.exists /\ f.parses /\ schemaFile.exists
    /\ IsStoreConfig(f.content)
    /\ ValidateConfig(f.content, TheSchema).kind = "ok"

\* C20: a file that holds a valid configuration C is loaded as C, sections, options
\* and values in their order, and a save with no change in between succeeds and
\* leaves C in the file
C20_RoundTrip ==
    [][\A p \in Procs :
        /\ (pc[p] = "idle" /\ pc'[p] # "idle" /\ HoldsValidConfig(cfgFile)) =>
              /\ status'[p] = "running"
              /\ loaded'[p] = cfgFile.content
        /\ (/\ cls[p] = "ValidConfig" /\ pc[p] = "loaded" /\ pc'[p] = "done"
            /\ mem[p] = loaded[p]
            /\ HoldsValidConfig(cfgFile)) =>
              /\ log'[p] = log[p] \o <<"save", "_validate", "mkdir", "open", "write">>
              /\ status'[p] = "returned"
              /\ cfgFile' = cfgFile]_vars

------------------------------------------------------------------------------
(* Concurrent invocations (SpecConcurrent) *)

\* what run() of process p with command line a would give had no other process
\* touched the file since p loaded it
RunAlone(p, a) ==
    RunCLI([St(p) EXCEPT !.file = WriteFile(loaded[p])], TheSchema, caseSensitive, a)

\* C21: invocations are not serialised: a run that saves writes the full snapshot of
\* its own store, which is the configuration it loaded with its own change and nothing
\* another process wrote since, and it ends without an error
C21_LastSaveWins ==
    [][\A p \in Procs :
        (pc[p] = "loaded" /\ pc'[p] = "done" /\ Has(log'[p], "write")) =>
            /\ cfgFile' = WriteFile(mem'[p])
            /\ cfgFile' = RunAlone(p, argv'[p]).file
            /\ mem'[p] = RunAlone(p, argv'[p]).mem
            /\ status'[p] = "exit0"
            /\ err'[p] = None]_vars

\* C21 witness: both processes loaded the same file and saved without an error, process 1
\* having unset a.o and process 2 having set a.op; the file is the snapshot of
\* process 2 and still holds the option process 1 removed
C21_Witness ==
    /\ pc[1] = "done" /\ pc[2] = "done"
    /\ status[1] = "exit0" /\ status[2] = "exit0"
    /\ loaded[1] = loaded[2]
    /\ loaded[1] = Parser(<<>>, <<Sec(A, <<Opt(O, V1)>>)>>)
    /\ Has(log[1], "write") /\ Has(log[2], "write")
    /\ mem[1] = EmptyParser
    /\ mem[2] = Parser(<<>>, <<Sec(A, <<Opt(O, V1), Opt(OP, V12)>>)>>)
    /\ cfgFile = WriteFile(mem[2])
    /\ HasKey(SectionOpts(AsRead(cfgFile), A), O)

------------------------------------------------------------------------------
(* The outcomes of a run (Spec) *)

\* C22: every run of the command line tool ends with exit 0, exit 1 or exit 2; no
\* exception escapes from run(), DEFAULT as the section name included
C22_RunEndsWithExitStatus ==
    [][\A p \in Procs :
        (pc[p] = "loaded" /\ pc'[p] = "done" /\ cls[p] = "ConfigCLI") =>
            status'[p] \in {"exit0", "exit1", "exit2"}]_vars

------------------------------------------------------------------------------
(* The patterns a section's options are resolved against (SpecValidate) *)

\* the option patterns written under the entry sp of schema s itself
OwnPatterns(s, sp) == IF sp = DEFAULT THEN Keys(s.defaults) ELSE Keys(SectionOpts(s, sp))

\* C23: the options of a section are resolved against the option patterns of the matched
\* schema entry alone: an accepted option matches one of them, and InvalidOptionError
\* lists exactly the patterns of one entry, none of another schema section or of the
\* schema's DEFAULT section
C23_OnlyPatternsOfMatchedEntry ==
    (vop = "validate_config" /\ vret # None) =>
        /\ vret.kind = "InvalidOptionError" =>
               \E i \in 1..Len(ListParser(vschema)) :
                   vret.valid = OwnPatterns(vschema, ListParser(vschema)[i])
        /\ vret.kind = "ok" =>
               \A n \in 1..Len(Sections(vconfig)) :
                   \A k \in 1..Len(Options(vconfig, Sections(vconfig)[n])) :
                       \E j \in 1..Len(OwnPatterns(vschema, EntryOf(vconfig, vschema, n))) :
                           MatchesAtStart(OwnPatterns(vschema, EntryOf(vconfig, vschema, n))[j],
                                          Options(vconfig, Sections(vconfig)[n])[k])

\* the value pattern the value of the k-th option of section n is tested against: that
\* of the first option pattern matching the option's name
ValPatOf(c, s, n, k) == GetItem(s, EntryOf(c, s, n), OptPatOf(c, s, n, k))

\* a later option pattern of the entry matches the k-th option of section n too, and
\* its value pattern matches the value
LaterPatternAccepts(c, s, n, k) ==
    LET pats == ListSection(s, EntryOf(c, s, n))
        opt == Options(c, Sections(c)[n])[k]
    IN  \E i, j \in 1..Len(pats) :
            /\ IsFirstMatch(pats, opt, i)
            /\ i < j
            /\ MatchesAtStart(pats[j], opt)
            /\ MatchesAtStart(GetItem(s, EntryOf(c, s, n), pats[j]),
                              GetItem(c, Sections(c)[n], opt))

\* V being the checks that fail: the value of an option among them makes the result an
\* error, the InvalidValueError of the first matching pattern when it is the first of V;
\* and an InvalidValueError is about such an option and names that pattern
FirstMatchDecides(V) ==
    \A n \in 1..Len(Sections(vconfig)) :
        \A k \in 1..Len(Options(vconfig, Sections(vconfig)[n])) :
            LET sec == Sections(vconfig)[n]
                opt == Options(vconfig, sec)[k]
            IN  /\ (~NameBad(vconfig, vschema, n) /\ ValBad(vconfig, vschema, n, k)) =>
                    /\ vret.kind # "ok"
                    /\ (\A w \in V : Before(<<n, k>>, w)) =>
                           vret = InvalidValueError(sec, opt, GetItem(vconfig, sec, opt),
                                                    ValPatOf(vconfig, vschema, n, k))
                /\ (vret.kind = "InvalidValueError" /\ vret.section = sec
                        /\ vret.option = opt) =>
                    /\ ~NameBad(vconfig, vschema, n)
                    /\ ValBad(vconfig, vschema, n, k)
                    /\ vret.valid = <<ValPatOf(vconfig, vschema, n, k)>>

\* C24: a value is tested against the value pattern of the first option pattern matching
\* the name and no other: a value it rejects makes validate_config fail, with
\* InvalidValueError naming that pattern when no earlier check fails, whatever later
\* patterns would accept; and an InvalidValueError always names that pattern
C24_ValueAgainstFirstMatchOnly ==
    (vop = "validate_config" /\ vret # None) =>
        FirstMatchDecides(Violations(vconfig, vschema))

\* C24 witness: o = 12 under the patterns "^o$" = "^1$" and "o" = "^.": the value fails
\* "^1$", the pattern of the first match, though "o" matches the name and "^." the value
C24_Witness ==
    /\ vop = "validate_config"
    /\ vschema = Schema1
    /\ vconfig = Parser(<<>>, <<Sec(A, <<Opt(O, V12)>>)>>)
    /\ LaterPatternAccepts(vconfig, vschema, 1, 1)
    /\ vret = InvalidValueError(A, O, V12, <<"^", "1", "$">>)

\* C25: the reserved entry DEFAULT of the schema's section list takes no part in the
\* matching of section names: _validate_section never returns it, and no section of
\* a config validate_config accepts was matched by it
C25_ReservedEntryNeverMatched ==
    /\ (vop = "_validate_section" /\ vret.kind = "ok") => vret.ret # DEFAULT
    /\ (vop = "validate_config" /\ vret.kind = "ok") =>
           \A n \in 1..Len(Sections(vconfig)) : EntryOf(vconfig, vschema, n) # DEFAULT

------------------------------------------------------------------------------
(* The schema as read (Spec) *)

\* C26: the patterns used for matching are the section headers, option keys and values
\* of the schema file as written, in both option name modes: a constructor that came to
\* validate the configuration it read accepts it exactly when validate_config does
\* under the content of the schema file
C26_SchemaTakenVerbatim ==
    \A p \in Procs :
        (schemaFile.exists /\ cls[p] # "none" /\ log[p] = <<"read", "_get_schema", "_validate">>) =>
            (pc[p] = "loaded" <=> ValidateConfig(loaded[p], schemaFile.content).kind = "ok")

------------------------------------------------------------------------------
(* set, get and save in a run (Spec) *)

\* run() was handed a NAME that is section.option and a VALUE, the empty string included
HasNameAndValue(a) ==
    a.name # <<>> /\ a.action = "none" /\ FromDotNotation(a.name[1]).ok /\ a.value # <<>>

\* C27: run() with a well-formed NAME and a VALUE, whatever string VALUE is, calls
\* _set_option and never _get_option
C27_NameValueIsSet ==
    [][\A p \in Procs :
        Runs(p, HasNameAndValue) =>
            Has(log'[p], "_set_option") /\ ~Has(log'[p], "_get_option")]_vars

\* process p takes the step of a run() that changes the configuration in memory (a set,
\* an unset that removed an option, an unset-all) and ends without an error
Mutates(p) ==
    /\ Runs(p, IsSet) \/ (Runs(p, IsUnset) /\ mem'[p] # mem[p]) \/ Runs(p, IsUnsetAll)
    /\ status'[p] = "exit0"

\* C28: every set, every unset that removed an option and every unset-all that ends
\* without an error has called save exactly once, which validated and then wrote, and
\* the file holds what the store holds in memory: sections, options, values and order
C28_MutationSavesOnce ==
    [][\A p \in Procs :
        Mutates(p) =>
            /\ Count(log'[p], "save") = 1
            /\ FromSave(log'[p]) = <<"save", "_validate", "mkdir", "open", "write">>
            /\ ValidateConfig(mem'[p], TheSchema).kind = "ok"
            /\ cfgFile'.exists /\ cfgFile'.parses
            /\ cfgFile'.content = mem'[p]]_vars

\* C28 witness: the second of two invocations in a row, each of which changed the file:
\* an unset that removed an option of a store which holds a DEFAULT option, saved once
C28_Witness ==
    /\ runs = 2
    /\ pc[1] = "done"
    /\ IsUnset(argv[1])
    /\ status[1] = "exit0"
    /\ File(loaded[1]) # file0
    /\ mem[1] # loaded[1]
    /\ mem[1].defaults # <<>>
    /\ Count(log[1], "save") = 1
    /\ cfgFile.content = mem[1]

------------------------------------------------------------------------------
(* The DEFAULT section of the configuration (SpecValidate) *)

\* the DEFAULT options that section n of config c does not set itself
InheritedOpts(c, n) ==
    LET IsInherited(o) == ~HasKey(c.sections[n].opts, o.key)
    IN  SelectSeq(c.defaults, IsInherited)

\* config c with the DEFAULT options written into every section that does not set
\* them, after the section's own options, and no DEFAULT section
Inlined(c) ==
    Parser(<<>>, [n \in 1..Len(c.sections) |->
                     Sec(c.sections[n].name, c.sections[n].opts \o InheritedOpts(c, n))])

\* C29: the DEFAULT section of a configuration is not validated as a section; its
\* options are validated in every section that does not set them, as if they were
\* written there: validate_config gives what it gives for the configuration with the
\* DEFAULT options written into the sections, and accepts a configuration that holds
\* nothing but DEFAULT options
C29_DefaultsInherited ==
    (vop = "validate_config" /\ vret # None) =>
        /\ vret = ValidateConfig(Inlined(vconfig), vschema)
        /\ Sections(vconfig) = <<>> => vret.kind = "ok"

\* C29 witness: the DEFAULT option op, which section a does not set, is rejected in
\* section a by the option patterns of the entry matched for a
C29_Witness ==
    /\ vop = "validate_config"
    /\ vconfig = Parser(<<Opt(OP, V12)>>, <<Sec(A, <<Opt(O, V1)>>)>>)
    /\ vschema = Schema3
    /\ vret = InvalidOptionError(A, OP, <<<<"^", "o", "$">>>>)

------------------------------------------------------------------------------
(* save on a store of either class (Spec) *)

\* C30: save on a loaded store of either class, ValidConfig or ConfigCLI, that holds a
\* configuration validate accepts ends without an error and leaves the configuration
\* in the file the store was loaded from
C30_SaveOnEveryLoadedStore ==
    [][\A p \in Procs :
        (/\ pc[p] = "loaded"
         /\ Count(log'[p], "save") = Count(log[p], "save") + 1
         /\ ValidateConfig(mem'[p], TheSchema).kind = "ok") =>
            /\ status'[p] \in {"returned", "exit0"}
            /\ err'[p] = None
            /\ cfgFile' = WriteFile(mem'[p])]_vars

====
